---- MODULE Spec2Model ----
(***************************************************************************)
(* A model of the chat relay of src/src/main.rs: the accept loop of main,  *)
(* handle_connection, State::broadcast, State::add_peer and the outbound   *)
(* writer task that add_peer spawns.                                       *)
(*                                                                         *)
(* Two families of behaviours are described over the same state:           *)
(*   Spec       the program: main accepts connections and runs one         *)
(*              handle_connection per connection, each on the State value  *)
(*              that `state.clone()` produced for it;                      *)
(*   SpecState, SpecSlow                                                   *)
(*              one State value whose methods add_peer and broadcast are   *)
(*              called by concurrent tasks, with the writer tasks that     *)
(*              add_peer spawned running beside them.                      *)
(***************************************************************************)
EXTENDS Integers, Sequences, FiniteSets, TLC

(* ------------------------------ bounds -------------------------------- *)

\* socket addresses
NAddrs == 3
\* connections main accepts; a connection is named by its address
NConns == 2
\* shards of the DashMap
NShards == 2
\* chat lines one client sends
MaxLines == 2
\* channels that add_peer creates in one behaviour
MaxChans == 2
\* tasks that call the methods of the one State value in SpecState/SpecSlow
NCallers == 2
\* broadcast calls per task in SpecState; in SpecSlow the peers are
\* registered before task 1 has made more calls than this
MaxCalls == 1
\* lines the peers' transports accept in SpecState/SpecSlow
MaxWrites == 2

(* -------------------------- program constants ------------------------- *)

\* mpsc::channel(16)
Cap == 16

Addrs == 1 .. NAddrs
Shards == 0 .. (NShards - 1)
Chans == 1 .. MaxChans
Callers == 1 .. NCallers
Conns == 1 .. NConns
\* State values: 0 is the `state` of main (the one State value of SpecState),
\* a is the clone that main moved into the task of connection a
Insts == 0 .. NAddrs
Usernames == {"A", "B"}
Lines == {"hi"}

NoShard == -1
NoEntry == [key |-> 0, ch |-> 0]
NoMessage == [ptr |-> <<0, 0>>, sender |-> "", content |-> ""]

VARIABLES
    mainPc,     \* main: "accepting" | "exited"; "harness" when no main runs
    pc,         \* per connection / calling task: position in its code
    outcome,    \* per connection: how handle_connection ended
    username,   \* per connection: the username read
    nread,      \* per connection: chat lines read so far
    greet,      \* per connection: lines handle_connection wrote itself
    peers,      \* per State value: the entries of its DashMap
    shardOf,    \* the shard each key hashes to
    bc,         \* per task: the frame of its running State::broadcast call
    ncalls,     \* per task: broadcast calls made so far
    bcasts,     \* per task: history of its broadcast calls
    nch,        \* channels created so far
    owner,      \* per channel: the address add_peer created it for
    chan,       \* per channel: the buffered messages
    rx,         \* per channel: the Receiver is alive
    wpc,        \* per channel: position of the writer task
    whold,      \* per channel: the message the writer task holds
    enq,        \* per channel: history of the messages sent into it
    taken,      \* per channel: history of the messages the writer received
    out,        \* per channel: the lines the writer wrote to the transport
    quota,      \* per task: broadcast calls it may still make (SpecState)
    wleft       \* lines the transports still accept

vars == <<mainPc, pc, outcome, username, nread, greet, peers, shardOf, bc,
          ncalls, bcasts, nch, owner, chan, rx, wpc, whold, enq, taken, out,
          quota, wleft>>

sessVars == <<outcome, username, nread, greet>>
chanVars == <<nch, owner, chan, rx, wpc, whold, enq, taken, out, wleft>>

(* ------------------------------ Message ------------------------------- *)

\* impl fmt::Display for Message
Render(m) == m.sender \o ": " \o m.content

\* Arc::new(Message { sender, content }); ptr is the identity of the allocation
NewMessage(t, k, sender, content) ==
    [ptr |-> <<t, k>>, sender |-> sender, content |-> content]

JoinContent(u) == u \o " has joined the chat."
LeaveContent(u) == u \o " has left the chat."

(* ------------------------------ DashMap ------------------------------- *)

Keys(es) == {e.key : e \in es}
Has(es, k) == \E e \in es : e.key = k
ShardEntries(es, sh) == {e \in es : shardOf[e.key] = sh}

\* an insert that leaves the entry the key had in place
InsertKeepOld(es, k, c) == es \cup {[key |-> k, ch |-> c]}

\* DashMap::insert: the entry of the key is replaced
Insert(es, k, c) == {e \in es : e.key # k} \cup {[key |-> k, ch |-> c]}

\* DashMap::remove
Remove(es, k) == {e \in es : e.key # k}

\* DashMap::clone: a new map with a copy of every entry
CloneMap(es) == es

\* a State value whose map outlives it
DropMapLeak(es) == es

\* dropping a State value drops its map and every Sender in it
DropMap(es) == {}

\* a shard of the map of State value i is read-locked by a running iteration
Guarded(i, sh) ==
    \E t \in Addrs : bc[t].phase # "idle" /\ bc[t].st = i /\ bc[t].guard = sh

\* a channel that never counts as closed by its Senders
SenderAliveAlways(c) == TRUE

\* some Sender of the channel exists (the Senders live in map entries)
SenderAlive(c) == \E i \in Insts : \E e \in peers[i] : e.ch = c

(* --------------------------- mpsc channel ----------------------------- *)

\* a recv that yields the message sent last
RecvNewest(q) == q[Len(q)]

\* the message Receiver::recv yields
RecvMsg(q) == Head(q)
\* the buffer after Receiver::recv
RecvRest(q) == Tail(q)
\* the buffer after a successful Sender::send
SendBuf(q, m) == Append(q, m)

(* --------------------------- State::broadcast ------------------------- *)

IdleFrame ==
    [phase |-> "idle", st |-> 0, origin |-> 0, msg |-> NoMessage,
     shard_i |-> 0, guard |-> NoShard, rest |-> {}, item |-> NoEntry,
     skipped |-> {}, failed |-> {}]

\* the addresses whose entry is in a registry
Registered == {a \in Addrs : \E i \in Insts : Has(peers[i], a)}

\* the call State::broadcast(origin, Arc::new(Message{sender, content})) on
\* State value i by task t: `self.peers.iter()`
StartBroadcast(t, i, origin, sender, content) ==
    LET m == NewMessage(t, ncalls[t] + 1, sender, content) IN
    /\ bc' = [bc EXCEPT ![t] =
                [IdleFrame EXCEPT !.phase = "iter", !.st = i,
                                  !.origin = origin, !.msg = m]]
    /\ ncalls' = [ncalls EXCEPT ![t] = @ + 1]
    /\ bcasts' = [bcasts EXCEPT ![t] =
                    Append(@, [msg |-> m, reg |-> Registered, done |-> FALSE])]

\* a caller that goes back to its read loop after the departure broadcast
AfterBroadcastLoop(p) ==
    CASE p = "Join"  -> "AddPeer"
      [] p = "Chat"  -> "Read"
      [] p = "Leave" -> "Read"
      [] OTHER       -> "Ready"

\* where the caller continues when its broadcast call returns
AfterBroadcast(p) ==
    CASE p = "Join"  -> "AddPeer"
      [] p = "Chat"  -> "Read"
      [] p = "Leave" -> "Exiting"
      [] OTHER       -> "Ready"

\* Iter::next: the shard the iterator reads next, the first one from shard j
\* on that holds an entry; NShards when there is none
RECURSIVE NextShard(_, _)
NextShard(es, j) ==
    IF j >= NShards THEN NShards
    ELSE IF ShardEntries(es, j) # {} THEN j
    ELSE NextShard(es, j + 1)

\* a comparison that passes over no entry
IsOriginNever(e, origin) == FALSE

\* `peer.key() == &addr`: the entry is the caller's own and is passed over
IsOrigin(e, origin) == e.key = origin

\* a loop body whose send buffers the message whatever the channel holds
VisitUnbounded(t, e, g, r, si) ==
    LET f == bc[t]
        c == e.ch
        at == [f EXCEPT !.guard = g, !.rest = r, !.shard_i = si, !.item = e]
    IN
    IF IsOrigin(e, f.origin)
    THEN /\ bc' = [bc EXCEPT ![t] = [at EXCEPT !.item = NoEntry,
                                               !.skipped = @ \cup {e}]]
         /\ UNCHANGED <<chan, enq>>
    ELSE /\ chan' = [chan EXCEPT ![c] = SendBuf(@, f.msg)]
         /\ enq' = [enq EXCEPT ![c] = Append(@, f.msg)]
         /\ bc' = [bc EXCEPT ![t] = [at EXCEPT !.item = NoEntry]]

\* the loop body of State::broadcast for entry e, up to the point where the
\* call of task t is suspended or goes on to the next entry; g and r are the
\* iterator's guard and the entries it has left in the guarded shard
Visit(t, e, g, r, si) ==
    LET f == bc[t]
        c == e.ch
        at == [f EXCEPT !.guard = g, !.rest = r, !.shard_i = si, !.item = e]
    IN
    IF IsOrigin(e, f.origin)
    THEN \* continue
         /\ bc' = [bc EXCEPT ![t] = [at EXCEPT !.item = NoEntry,
                                               !.skipped = @ \cup {e}]]
         /\ UNCHANGED <<chan, enq>>
    ELSE IF ~rx[c]
    THEN \* send(..).await is Err: the channel is closed
         /\ bc' = [bc EXCEPT ![t] = [at EXCEPT !.phase = "remove",
                                               !.failed = @ \cup {e.key}]]
         /\ UNCHANGED <<chan, enq>>
    ELSE IF Len(chan[c]) < Cap
    THEN \* a permit is free: the message is buffered
         /\ chan' = [chan EXCEPT ![c] = SendBuf(@, f.msg)]
         /\ enq' = [enq EXCEPT ![c] = Append(@, f.msg)]
         /\ bc' = [bc EXCEPT ![t] = [at EXCEPT !.item = NoEntry]]
    ELSE \* no permit: send(..).await suspends the caller
         /\ bc' = [bc EXCEPT ![t] = [at EXCEPT !.phase = "wait",
                                               !.failed = @ \cup {e.key}]]
         /\ UNCHANGED <<chan, enq>>

\* one step of the running State::broadcast call of task t
Broadcast(t) ==
    LET f == bc[t]
        c == f.item.ch
        j == NextShard(peers[f.st], f.shard_i)
    IN
    /\ mainPc # "exited"
    /\ f.phase # "idle"
    /\ UNCHANGED <<mainPc, sessVars, shardOf, ncalls, nch, owner,
                   rx, wpc, whold, taken, out, quota, wleft>>
    /\ CASE f.phase = "iter" ->
              IF f.rest # {}
              THEN \* the next entry of the guarded shard
                   /\ \E e \in f.rest :
                        Visit(t, e, f.guard, f.rest \ {e}, f.shard_i)
                   /\ UNCHANGED <<pc, bcasts, peers>>
              ELSE IF j < NShards
              THEN \* the guard moves to the next shard that holds entries
                   /\ \E e \in ShardEntries(peers[f.st], j) :
                        Visit(t, e, j, ShardEntries(peers[f.st], j) \ {e}, j + 1)
                   /\ UNCHANGED <<pc, bcasts, peers>>
              ELSE \* the loop ends, the iterator and its guard are dropped
                   /\ bc' = [bc EXCEPT ![t] = IdleFrame]
                   /\ pc' = [pc EXCEPT ![t] = AfterBroadcast(pc[t])]
                   /\ bcasts' = [bcasts EXCEPT ![t][Len(bcasts[t])].done = TRUE]
                   /\ UNCHANGED <<peers, chan, enq>>
         [] f.phase = "wait" ->
              \* the suspended send(..).await is woken
              IF ~rx[c]
              THEN /\ bc' = [bc EXCEPT ![t].phase = "remove"]
                   /\ UNCHANGED <<pc, bcasts, peers, chan, enq>>
              ELSE /\ Len(chan[c]) < Cap
                   /\ chan' = [chan EXCEPT ![c] = SendBuf(@, f.msg)]
                   /\ enq' = [enq EXCEPT ![c] = Append(@, f.msg)]
                   /\ bc' = [bc EXCEPT ![t].phase = "iter", ![t].item = NoEntry]
                   /\ UNCHANGED <<pc, bcasts, peers>>
         [] f.phase = "remove" ->
              \* self.peers.remove(peer.key()) takes the write lock of the shard
              /\ ~Guarded(f.st, shardOf[f.item.key])
              /\ peers' = [peers EXCEPT ![f.st] = Remove(@, f.item.key)]
              /\ bc' = [bc EXCEPT ![t].phase = "iter", ![t].item = NoEntry]
              /\ UNCHANGED <<pc, bcasts, chan, enq>>

(* --------------------------- State::add_peer -------------------------- *)

\* State::add_peer(addr, ..) on State value i: a new channel, its Sender
\* inserted under addr, its Receiver moved into a spawned writer task
AddPeer(i, addr) ==
    LET c == nch + 1 IN
    /\ nch < MaxChans
    /\ ~Guarded(i, shardOf[addr])
    /\ nch' = c
    /\ owner' = [owner EXCEPT ![c] = addr]
    /\ rx' = [rx EXCEPT ![c] = TRUE]
    /\ wpc' = [wpc EXCEPT ![c] = "recv"]
    /\ peers' = [peers EXCEPT ![i] = Insert(@, addr, c)]
    /\ UNCHANGED <<chan, whold, enq, taken, out, wleft>>

\* one step of the writer task of channel c
Writer(c) ==
    /\ mainPc # "exited"
    /\ c <= nch
    /\ UNCHANGED <<mainPc, pc, sessVars, peers, shardOf, bc, ncalls, bcasts,
                   nch, owner, enq, quota>>
    /\ CASE wpc[c] = "recv" ->
              \* rx.recv().await
              IF chan[c] # <<>>
              THEN /\ whold' = [whold EXCEPT ![c] = RecvMsg(chan[c])]
                   /\ chan' = [chan EXCEPT ![c] = RecvRest(@)]
                   /\ taken' = [taken EXCEPT ![c] = Append(@, RecvMsg(chan[c]))]
                   /\ wpc' = [wpc EXCEPT ![c] = "write"]
                   /\ UNCHANGED <<rx, out, wleft>>
              ELSE \* None once every Sender is gone: the task ends
                   /\ ~SenderAlive(c)
                   /\ wpc' = [wpc EXCEPT ![c] = "done"]
                   /\ rx' = [rx EXCEPT ![c] = FALSE]
                   /\ UNCHANGED <<chan, whold, taken, out, wleft>>
         [] wpc[c] = "write" ->
              \* sender.send(message.to_string()).await
              \E ok \in BOOLEAN :
                 IF ok
                 THEN /\ wleft > 0
                      /\ wleft' = wleft - 1
                      /\ out' = [out EXCEPT ![c] = Append(@, Render(whold[c]))]
                      /\ wpc' = [wpc EXCEPT ![c] = "recv"]
                      /\ whold' = [whold EXCEPT ![c] = NoMessage]
                      /\ UNCHANGED <<chan, rx, taken>>
                 ELSE \* break: the Receiver is dropped with what it buffers
                      /\ wpc' = [wpc EXCEPT ![c] = "done"]
                      /\ rx' = [rx EXCEPT ![c] = FALSE]
                      /\ chan' = [chan EXCEPT ![c] = <<>>]
                      /\ whold' = [whold EXCEPT ![c] = NoMessage]
                      /\ UNCHANGED <<taken, out, wleft>>
         [] OTHER -> FALSE

(* ------------------------------- main --------------------------------- *)

\* listener.accept() yields a connection; its task gets state.clone()
Accept(a) ==
    /\ mainPc = "accepting"
    /\ pc[a] = "Idle"
    /\ pc' = [pc EXCEPT ![a] = "Prompt"]
    /\ peers' = [peers EXCEPT ![a] = CloneMap(peers[0])]
    /\ UNCHANGED <<mainPc, sessVars, shardOf, bc, ncalls, bcasts, chanVars, quota>>

\* listener.accept().await? is Err: main returns and the process ends
AcceptError ==
    /\ mainPc = "accepting"
    /\ mainPc' = "exited"
    /\ UNCHANGED <<pc, sessVars, peers, shardOf, bc, ncalls, bcasts, chanVars, quota>>

(* -------------------------- handle_connection ------------------------- *)

\* an end of handle_connection that takes every running connection down
ExitAll(a, how) ==
    /\ pc' = [b \in Addrs |-> IF pc[b] \in {"Idle", "Closed"} THEN pc[b]
                              ELSE "Exiting"]
    /\ outcome' = [outcome EXCEPT ![a] = how]

\* handle_connection ends with `how`
Exit(a, how) ==
    /\ pc' = [pc EXCEPT ![a] = "Exiting"]
    /\ outcome' = [outcome EXCEPT ![a] = how]

\* framed.send("Enter your username:").await?
SendPrompt(a) ==
    /\ mainPc = "accepting"
    /\ pc[a] = "Prompt"
    /\ \E ok \in BOOLEAN :
         IF ok
         THEN /\ greet' = [greet EXCEPT ![a] = Append(@, "Enter your username:")]
              /\ pc' = [pc EXCEPT ![a] = "AwaitUsername"]
              /\ UNCHANGED outcome
         ELSE /\ Exit(a, "err")
              /\ UNCHANGED greet
    /\ UNCHANGED <<mainPc, username, nread, peers, shardOf, bc, ncalls, bcasts,
                   chanVars, quota>>

\* a username read whose failure arm falls through with an empty username
ReadUsernameFallsThrough(a) ==
    /\ mainPc = "accepting"
    /\ pc[a] = "AwaitUsername"
    /\ \E in \in Usernames \cup {"<eof>", "<error>"} :
         username' = [username EXCEPT ![a] = IF in \in Usernames THEN in ELSE ""]
    /\ pc' = [pc EXCEPT ![a] = "Welcome"]
    /\ UNCHANGED <<mainPc, outcome, nread, greet, peers, shardOf, bc, ncalls,
                   bcasts, chanVars, quota>>

\* framed.next().await for the username
ReadUsername(a) ==
    /\ mainPc = "accepting"
    /\ pc[a] = "AwaitUsername"
    /\ \E in \in Usernames \cup {"<eof>", "<error>"} :
         IF in \in Usernames
         THEN /\ username' = [username EXCEPT ![a] = in]
              /\ pc' = [pc EXCEPT ![a] = "Welcome"]
              /\ UNCHANGED outcome
         ELSE /\ Exit(a, "ok")
              /\ UNCHANGED username
    /\ UNCHANGED <<mainPc, nread, greet, peers, shardOf, bc, ncalls, bcasts,
                   chanVars, quota>>

\* framed.send(format!("Welcome, {}!", username)).await?, then the call of
\* state.broadcast for the join announcement
SendWelcome(a) ==
    /\ mainPc = "accepting"
    /\ pc[a] = "Welcome"
    /\ \E ok \in BOOLEAN :
         IF ok
         THEN /\ greet' = [greet EXCEPT ![a] =
                             Append(@, "Welcome, " \o username[a] \o "!")]
              /\ pc' = [pc EXCEPT ![a] = "Join"]
              /\ StartBroadcast(a, a, a, "Server", JoinContent(username[a]))
              /\ UNCHANGED outcome
         ELSE /\ Exit(a, "err")
              /\ UNCHANGED <<greet, bc, ncalls, bcasts>>
    /\ UNCHANGED <<mainPc, username, nread, peers, shardOf, chanVars, quota>>

\* state.add_peer(addr, username, framed).await
Register(a) ==
    /\ mainPc = "accepting"
    /\ pc[a] = "AddPeer"
    /\ AddPeer(a, a)
    /\ pc' = [pc EXCEPT ![a] = "Read"]
    /\ UNCHANGED <<mainPc, sessVars, shardOf, bc, ncalls, bcasts, quota>>

\* peer.stream.next().await is Some(Ok(line)): broadcast the line
ReadLine(a) ==
    /\ mainPc = "accepting"
    /\ pc[a] = "Read"
    /\ nread[a] < MaxLines
    /\ \E line \in Lines :
         StartBroadcast(a, a, a, username[a], line)
    /\ nread' = [nread EXCEPT ![a] = @ + 1]
    /\ pc' = [pc EXCEPT ![a] = "Chat"]
    /\ UNCHANGED <<mainPc, outcome, username, greet, peers, shardOf, chanVars, quota>>

\* peer.stream.next().await is None: the loop ends, broadcast the departure
ReadEof(a) ==
    /\ mainPc = "accepting"
    /\ pc[a] = "Read"
    /\ StartBroadcast(a, a, a, "Server", LeaveContent(username[a]))
    /\ pc' = [pc EXCEPT ![a] = "Leave"]
    /\ UNCHANGED <<mainPc, sessVars, peers, shardOf, chanVars, quota>>

\* a read error whose panic is not contained by the task: the process ends
ReadErrorAborts(a) ==
    /\ mainPc = "accepting"
    /\ pc[a] = "Read"
    /\ Exit(a, "panic")
    /\ mainPc' = "exited"
    /\ UNCHANGED <<username, nread, greet, peers, shardOf, bc, ncalls,
                   bcasts, chanVars, quota>>

\* peer.stream.next().await is Some(Err(_)): line.unwrap() panics
ReadError(a) ==
    /\ mainPc = "accepting"
    /\ pc[a] = "Read"
    /\ Exit(a, "panic")
    /\ UNCHANGED <<mainPc, username, nread, greet, peers, shardOf, bc, ncalls,
                   bcasts, chanVars, quota>>

\* an end of handle_connection that empties every registry
EndSessionClears(a) ==
    /\ mainPc = "accepting"
    /\ pc[a] = "Exiting"
    /\ pc' = [pc EXCEPT ![a] = "Closed"]
    /\ peers' = [i \in Insts |-> DropMap(peers[i])]
    /\ UNCHANGED <<mainPc, sessVars, shardOf, bc, ncalls, bcasts, chanVars, quota>>

\* handle_connection returns or unwinds: its State value is dropped
EndSession(a) ==
    /\ mainPc = "accepting"
    /\ pc[a] = "Exiting"
    /\ pc' = [pc EXCEPT ![a] = "Closed"]
    /\ peers' = [peers EXCEPT ![a] = DropMap(@)]
    /\ UNCHANGED <<mainPc, sessVars, shardOf, bc, ncalls, bcasts, chanVars, quota>>

(* --------------------------- the program ------------------------------ *)

InitCommon ==
    /\ outcome = [a \in Addrs |-> "none"]
    /\ username = [a \in Addrs |-> ""]
    /\ nread = [a \in Addrs |-> 0]
    /\ greet = [a \in Addrs |-> <<>>]
    /\ peers = [i \in Insts |-> {}]
    /\ shardOf \in [Addrs -> Shards]
    /\ bc = [a \in Addrs |-> IdleFrame]
    /\ ncalls = [a \in Addrs |-> 0]
    /\ bcasts = [a \in Addrs |-> <<>>]
    /\ nch = 0
    /\ owner = [c \in Chans |-> 0]
    /\ chan = [c \in Chans |-> <<>>]
    /\ rx = [c \in Chans |-> FALSE]
    /\ wpc = [c \in Chans |-> "none"]
    /\ whold = [c \in Chans |-> NoMessage]
    /\ enq = [c \in Chans |-> <<>>]
    /\ taken = [c \in Chans |-> <<>>]
    /\ out = [c \in Chans |-> <<>>]

Init ==
    /\ InitCommon
    /\ mainPc = "accepting"
    /\ pc = [a \in Addrs |-> "Idle"]
    /\ quota = [a \in Addrs |-> 0]
    /\ wleft = MaxWrites

Next ==
    \/ AcceptError
    \/ \E a \in Conns :
         \/ Accept(a)
         \/ SendPrompt(a)
         \/ ReadUsername(a)
         \/ SendWelcome(a)
         \/ Broadcast(a)
         \/ Register(a)
         \/ ReadLine(a)
         \/ ReadEof(a)
         \/ ReadError(a)
         \/ EndSession(a)
    \/ \E c \in Chans : Writer(c)

Spec == Init /\ [][Next]_vars

(* ---------------- one State value and its callers --------------------- *)

\* a task calls state.add_peer(a, ..) on the one State value
CallAddPeer(t, a) ==
    /\ mainPc = "harness"
    /\ pc[t] = "Ready"
    /\ \A u \in Callers : ncalls[u] <= MaxCalls
    /\ AddPeer(0, a)
    /\ UNCHANGED <<mainPc, pc, sessVars, shardOf, bc, ncalls, bcasts, quota>>

\* the name a calling task sends under
CallerName(t) == IF t = 1 THEN "A" ELSE "B"

\* task t calls state.broadcast(t, Arc::new(Message{..})) on the one State value
CallBroadcast(t) ==
    /\ mainPc = "harness"
    /\ pc[t] = "Ready"
    /\ quota[t] > 0
    /\ quota' = [quota EXCEPT ![t] = @ - 1]
    /\ \E line \in Lines : StartBroadcast(t, 0, t, CallerName(t), line)
    /\ pc' = [pc EXCEPT ![t] = "Call"]
    /\ UNCHANGED <<mainPc, sessVars, peers, shardOf, chanVars>>

\* every task makes a few broadcast calls
InitState ==
    /\ InitCommon
    /\ mainPc = "harness"
    /\ pc = [a \in Addrs |-> IF a \in Callers THEN "Ready" ELSE "Idle"]
    /\ quota = [a \in Addrs |-> IF a \in Callers THEN MaxCalls ELSE 0]
    /\ wleft = MaxWrites

\* task 1 makes enough broadcast calls to fill a channel and one more, the
\* other tasks only register peers
InitSlow ==
    /\ InitCommon
    /\ mainPc = "harness"
    /\ pc = [a \in Addrs |-> IF a \in Callers THEN "Ready" ELSE "Idle"]
    /\ quota = [a \in Addrs |-> IF a = 1 THEN Cap + 1 ELSE 0]
    /\ wleft = MaxWrites

NextState ==
    \/ \E t \in Callers :
         \/ \E a \in Addrs : CallAddPeer(t, a)
         \/ CallBroadcast(t)
         \/ Broadcast(t)
    \/ \E c \in Chans : Writer(c)

SpecState == InitState /\ [][NextState]_vars

SpecSlow == InitSlow /\ [][NextState]_vars

\* the tasks return and the one State value is dropped, as at the end of
\* handle_connection: no call borrows it any more, its map goes with it
DropState ==
    /\ mainPc = "harness"
    /\ \A t \in Addrs : bc[t].phase = "idle"
    /\ mainPc' = "dropped"
    /\ peers' = [peers EXCEPT ![0] = DropMap(@)]
    /\ UNCHANGED <<pc, sessVars, shardOf, bc, ncalls, bcasts, chanVars, quota>>

NextLive ==
    \/ NextState
    \/ DropState

\* the tokio scheduler runs every task that is ready: a broadcast call that
\* can take a step takes it, and so does a writer task
SpecLive ==
    /\ InitState
    /\ [][NextLive]_vars
    /\ \A t \in Callers : WF_vars(Broadcast(t))
    /\ \A c \in Chans : WF_vars(Writer(c))

(* ------------------------------ claims -------------------------------- *)

\* the channels add_peer created for address a
ChansOf(a) == {c \in Chans : c <= nch /\ owner[c] = a}

\* how often the message of allocation p was sent into channel c
Copies(c, p) == Cardinality({i \in 1 .. Len(enq[c]) : enq[c][i].ptr = p})

\* the connection's add_peer has completed
WasRegistered(a) == ChansOf(a) # {}

\* the record of a chat line of connection a
IsChat(a, r) == r.msg.sender = username[a] /\ r.msg.content \in Lines

\* C1: once clients a and b are both registered, a chat line of a whose
\* broadcast call has returned was sent into b's channel exactly once, it is
\* rendered "<a's username>: <line>", and a's own channel got no copy of it.
C1_Delivery ==
    \A a \in Conns, b \in Conns :
      \A k \in 1 .. Len(bcasts[a]) :
        LET r == bcasts[a][k] IN
        (/\ a # b
         /\ r.done
         /\ IsChat(a, r)
         /\ {a, b} \subseteq r.reg
         /\ Has(peers[b], b))
        => /\ \A c \in ChansOf(b) : Copies(c, r.msg.ptr) = 1
           /\ \A c \in ChansOf(a) : Copies(c, r.msg.ptr) = 0
           /\ Render(r.msg) = username[a] \o ": " \o r.msg.content

\* C2: while connection a's entry is registered, a broadcast call that
\* another connection b started after a's add_peer iterates a registry that
\* holds a's entry.
C2_Visibility ==
    \A a \in Conns, b \in Conns :
      (/\ a # b
       /\ bc[b].phase # "idle"
       /\ a \in bcasts[b][Len(bcasts[b])].reg
       /\ Has(peers[a], a))
      => Has(peers[bc[b].st], a)

\* C3: no broadcast call sends its message into the channel of its own
\* origin: a message of origin o is never found in a channel created for o.
C3_Exclusion ==
    \A c \in Chans :
      \A i \in 1 .. Len(enq[c]) : enq[c][i].ptr[1] # owner[c]

\* C3 witness: a broadcast call whose origin is registered has passed over
\* the origin's own entry and has sent its message to another peer.
C3_Witness ==
    \E t \in Callers :
      /\ bc[t].skipped # {}
      /\ \E c \in Chans : Copies(c, bc[t].msg.ptr) = 1

\* the call of task t returns in this step
Returns(t) == bc[t].phase # "idle" /\ bc'[t].phase = "idle"

\* C4: a peer whose channel was full or closed when a broadcast call tried to
\* send to it is absent from the registry when that call returns.
C4_EvictionOnFailure ==
    [][\A t \in Callers :
         Returns(t) => \A k \in bc[t].failed : ~Has(peers'[bc[t].st], k)]_vars

\* C5: a broadcast call never waits for a peer's channel to become non-full.
C5_NonBlocking ==
    \A t \in Callers : bc[t].phase # "wait"

\* the entries a running broadcast call has yet to visit
Unvisited(f) ==
    f.rest \cup {e \in peers[f.st] : shardOf[e.key] >= f.shard_i}

\* C6: while a broadcast call is held up at a peer whose full channel is not
\* drained, every other registered peer has been sent the message already,
\* and the call holds no lock of the registry.
C6_SlowPeerIsolation ==
    \A t \in Callers :
      bc[t].phase = "wait"
      => /\ \A e \in Unvisited(bc[t]) : e.key = bc[t].origin
         /\ bc[t].guard = NoShard

\* s is t with nothing but its first n elements
IsPrefix(s, t) ==
    Len(s) <= Len(t) /\ \A i \in 1 .. Len(s) : s[i] = t[i]

\* C7: the writer of a channel receives the messages in the order they were
\* sent into it, none twice and none passed over, and writes them rendered in
\* that order.
C7_Fifo ==
    \A c \in Chans :
      /\ IsPrefix(taken[c], enq[c])
      /\ rx[c] => taken[c] \o chan[c] = enq[c]
      /\ Len(out[c]) <= Len(taken[c])
      /\ Len(taken[c]) <= Len(out[c]) + 1
      /\ \A i \in 1 .. Len(out[c]) : out[c][i] = Render(taken[c][i])

\* C7 witness: two messages of different broadcast calls were sent into one
\* channel and its writer has written both.
C7_Witness ==
    \E c \in Chans :
      /\ Len(out[c]) = 2
      /\ enq[c][1].ptr # enq[c][2].ptr

\* C8: when a connection that was registered is Closed, no registry holds
\* an entry under its address.
C8_Deregistered ==
    \A a \in Conns :
      (pc[a] = "Closed" /\ WasRegistered(a))
      => \A i \in Insts : ~Has(peers[i], a)

\* C8 witness: a registered connection is Closed after a read error, with no
\* departure broadcast made.
C8_Witness ==
    \E a \in Conns :
      /\ pc[a] = "Closed"
      /\ WasRegistered(a)
      /\ outcome[a] = "panic"

\* the record of the departure announcement of connection a
IsLeave(a, r) ==
    r.msg.sender = "Server" /\ r.msg.content = LeaveContent(username[a])

\* C9: a connection whose read loop has ended is not Closed before it has
\* broadcast its departure announcement.
C9_Departure ==
    \A a \in Conns :
      (pc[a] = "Closed" /\ WasRegistered(a))
      => \E k \in 1 .. Len(bcasts[a]) :
           IsLeave(a, bcasts[a][k]) /\ bcasts[a][k].done

\* C10: a registry never holds two entries under one address.
C10_Uniqueness ==
    \A i \in Insts :
      \A e1 \in peers[i], e2 \in peers[i] : e1.key = e2.key => e1 = e2

\* C10 witness: add_peer was called for an address that was registered; the
\* registry holds the entry of the later call.
C10_Witness ==
    \E e \in peers[0] :
      \E c \in ChansOf(e.key) : c < e.ch

\* C11: a connection from which no username was read (the stream ended or
\* failed first) has no entry in any registry, no channel, and has made no
\* broadcast call, neither for a join nor for a departure.
C11_ProtocolViolation ==
    \A a \in Conns :
      username[a] = ""
      => /\ ~WasRegistered(a)
         /\ a \notin Registered
         /\ bcasts[a] = <<>>
         /\ bc[a].phase = "idle"

\* C11 witness: a connection was prompted, its stream ended before the
\* username line, and it is Closed.
C11_Witness ==
    \E a \in Conns :
      /\ pc[a] = "Closed"
      /\ outcome[a] = "ok"
      /\ username[a] = ""
      /\ greet[a] = <<"Enter your username:">>

\* the connections other than a keep their position, frame, registry,
\* history and channels in this step
OthersUntouched(a) ==
    /\ \A b \in Conns \ {a} :
         /\ pc'[b] = pc[b]
         /\ outcome'[b] = outcome[b]
         /\ bc'[b] = bc[b]
         /\ peers'[b] = peers[b]
         /\ bcasts'[b] = bcasts[b]
    /\ peers'[0] = peers[0]
    /\ UNCHANGED chanVars

\* C12: a connection whose prompt or welcome write failed never registers
\* and never broadcasts, and the step in which the write fails changes
\* nothing of the other connections, the registries or the channels.
C12_GreetingFailure ==
    [][\A a \in Conns :
         outcome'[a] = "err"
         => /\ bcasts'[a] = <<>>
            /\ ChansOf(a)' = {}
            /\ ~Has(peers'[a], a)
            /\ outcome[a] # "err" => OthersUntouched(a)]_vars

\* C12 witness: the welcome write of a connection failed while another
\* connection is registered.
C12_Witness ==
    \E a \in Conns, b \in Conns :
      /\ outcome[a] = "err"
      /\ username[a] # ""
      /\ pc[a] = "Closed"
      /\ Has(peers[b], b)

\* C13: once the writer task of a peer has stopped on a write error, no send
\* into its channel succeeds, and a broadcast call whose send to that peer
\* failed goes on to remove the peer's entry from the registry.
C13_WriterFailureEvicts ==
    /\ [][\A c \in Chans : ~rx[c] => enq'[c] = enq[c]]_vars
    /\ \A t \in Callers, k \in Addrs :
         (bc[t].phase = "remove" /\ bc[t].item.key = k) ~> ~Has(peers[0], k)

\* C14: whatever the connections have done, the accept loop of main is left
\* only by an error of accept itself, and while it runs it can accept every
\* connection that has not been accepted yet.
C14_ListenerSurvival ==
    /\ [](mainPc = "accepting"
          => \A b \in Conns : pc[b] = "Idle" => ENABLED Accept(b))
    /\ [][mainPc' # mainPc => AcceptError]_vars

\* C14 witness: a connection ended by the panic on a read error, and main
\* can still accept the connection that has not been accepted yet.
C14_Witness ==
    \E a \in Conns, b \in Conns :
      /\ pc[a] = "Closed"
      /\ outcome[a] = "panic"
      /\ pc[b] = "Idle"
      /\ mainPc = "accepting"
      /\ ENABLED Accept(b)

\* the message is the join announcement of connection a
IsJoin(a, m) == m.sender = "Server" /\ m.content = JoinContent(username[a])

\* C15: a connection whose welcome line was written registers before it
\* announces its join: whenever its join broadcast has been started, its
\* add_peer has completed.
C15_RegisterBeforeJoin ==
    \A a \in Conns :
      (bcasts[a] # <<>> /\ IsJoin(a, bcasts[a][1].msg)) => WasRegistered(a)

\* the session state of connection a: Closing is the time from the end of the
\* read loop until the connection's registry entry is gone; a connection
\* that returns without an entry has nothing left to do and counts as Closed
SessionState(a) ==
    CASE pc[a] = "Idle" -> "None"
      [] pc[a] = "Prompt" -> "Connecting"
      [] pc[a] = "AwaitUsername" -> "AwaitingUsername"
      [] pc[a] \in {"Welcome", "Join", "AddPeer", "Read", "Chat"} -> "Active"
      [] pc[a] = "Leave" -> "Closing"
      [] pc[a] = "Exiting" -> IF WasRegistered(a) THEN "Closing" ELSE "Closed"
      [] OTHER -> "Closed"

SessionRank(s) ==
    CASE s = "None" -> 0
      [] s = "Connecting" -> 1
      [] s = "AwaitingUsername" -> 2
      [] s = "Active" -> 3
      [] s = "Closing" -> 4
      [] OTHER -> 5

\* the broadcast calls of connection a so far: the join announcement, then
\* one chat message per line read, then at most the departure announcement,
\* each call begun after the one before it has returned
BroadcastsInOrder(a) ==
    LET n == Len(bcasts[a])
        chats == {k \in 1 .. n : IsChat(a, bcasts[a][k])}
        leaves == {k \in 1 .. n : IsLeave(a, bcasts[a][k])}
    IN
    /\ SessionRank(SessionState(a)) < 3 => n = 0
    /\ pc[a] \in {"Join", "AddPeer", "Read", "Chat", "Leave"} => n >= 1
    /\ n >= 1 => IsJoin(a, bcasts[a][1].msg)
    /\ \A k \in 2 .. n :
         /\ ~IsJoin(a, bcasts[a][k].msg)
         /\ k \in chats \cup leaves
    /\ chats = {k \in 2 .. n : k <= nread[a] + 1}
    /\ leaves \subseteq {n}
    /\ \A k \in 1 .. n :
         /\ bcasts[a][k].msg.ptr = <<a, k>>
         /\ k < n => bcasts[a][k].done

NoSender(c) == c <= nch /\ \A i \in Insts : \A e \in peers[i] : e.ch # c

\* C17: once no registry entry holds the Sender of a peer's channel, the
\* peer's writer task eventually ends; and a writer task that ends because
\* recv yielded None has taken and written every message sent to its channel.
C17_WriterTermination ==
    /\ \A c \in Chans : NoSender(c) ~> wpc[c] = "done"
    /\ [][\A c \in Chans :
            (wpc[c] = "recv" /\ wpc'[c] = "done")
            => /\ NoSender(c)
               /\ taken[c] = enq[c]
               /\ Len(out[c]) = Len(enq[c])]_vars

\* C17 witness: the registry was dropped while a message was buffered for a
\* peer; its writer task wrote the message and then ended.
C17_Witness ==
    \E c \in Chans :
      /\ NoSender(c)
      /\ mainPc = "dropped"
      /\ wpc[c] = "done"
      /\ enq[c] # <<>>
      /\ Len(out[c]) = Len(enq[c])

\* the State value i is dropped in this step by the task that owns it
Deregisters(i) ==
    \/ i \in Conns /\ pc[i] = "Exiting" /\ pc'[i] = "Closed"
    \/ i = 0 /\ mainPc = "harness" /\ mainPc' = "dropped"

\* a broadcast call on State value i whose send to peer k failed is at its
\* peers.remove
Evicts(i, k) ==
    \E t \in Addrs :
      /\ bc[t].phase = "remove"
      /\ bc[t].st = i
      /\ bc[t].item.key = k
      /\ k \in bc[t].failed

\* add_peer for address k completes in this step
Reregisters(k) == nch' = nch + 1 /\ owner'[nch'] = k

C19_EvictionDoesNotDeadlock ==
    \A t \in Addrs :
      bc[t].phase = "remove" => ~Guarded(bc[t].st, shardOf[bc[t].item.key])

====
